---- MODULE Spec2Model ----
(***************************************************************************)
(* A model of jutil's Length (src/length.go): the byte length of the JSON  *)
(* encoding of a Go value, computed without encoding it.                   *)
(*                                                                         *)
(* A Go value is a record whose field k is its dynamic type's category.    *)
(* A string is a sequence of byte values.  An error is a string, "" being  *)
(* the nil error.  An outcome is [n, err, calls]: Length's two named       *)
(* results and the capability methods it invoked, in order.  Length is     *)
(* set-valued: Go ranges over a map in an unspecified order, and the set   *)
(* holds the outcome of every traversal order.                             *)
(***************************************************************************)
EXTENDS Integers, Sequences, FiniteSets

VARIABLES value, pc, out, out2

vars == <<value, pc, out, out2>>

(***************************************************************************)
(* Primitive length rules                                                  *)
(***************************************************************************)

\* length.go:206, the length below which jsonLenString tries its fast path
ShortStringLimit == 100

\* Go's integer division truncates toward zero
Quot(a, b) == IF a < 0 THEN -((-a) \div b) ELSE a \div b

jsonLenNull == 4

jsonLenBool(v) == IF v THEN 4 ELSE 5

RECURSIVE DigitLoop(_, _)
\* for v != 0 { v /= 10; n++ }
DigitLoop(v, n) == IF v = 0 THEN n ELSE DigitLoop(Quot(v, 10), n + 1)

jsonLenInt(v) == IF v = 0 THEN 1 ELSE DigitLoop(v, IF v < 0 THEN 1 ELSE 0)

jsonLenUint(v) == IF v = 0 THEN 1 ELSE DigitLoop(v, 0)

\* const escapedBytes = "/\"\\\n\t\r\v\b\f"
escapedBytes == <<47, 34, 92, 10, 9, 13, 11, 8, 12>>

\* strings.IndexByte: the index of the first c in s, counted from 0, or -1
IndexByte(s, c) ==
    LET hits == {i \in 1..Len(s) : s[i] = c}
    IN  IF hits = {} THEN -1
        ELSE (CHOOSE i \in hits : \A j \in hits : i <= j) - 1

\* GotoSlowPath with '/' missing from escapedBytes
GotoSlowPathNoSlash(s) ==
    LET escaped == <<34, 92, 10, 9, 13, 11, 8, 12>>
    IN  CASE Len(s) = 0 -> FALSE
          [] Len(s) = 1 -> \E i \in 1..Len(escaped) : s[1] = escaped[i]
          [] OTHER      -> \E i \in 1..Len(escaped) : IndexByte(s, escaped[i]) >= 0

\* the switch on len(s) of the short-string branch: TRUE is goto slowPath
GotoSlowPath(s) ==
    CASE Len(s) = 0 -> FALSE
      [] Len(s) = 1 -> \E i \in 1..Len(escapedBytes) : s[1] = escapedBytes[i]
      [] OTHER      -> \E i \in 1..Len(escapedBytes) : IndexByte(s, escapedBytes[i]) >= 0

\* the indexes `for i := range s` visits: those where a rune starts (runes of
\* one and two bytes; a byte that starts no valid rune is a rune by itself, and
\* a lead byte 0xC2..0xDF takes the continuation byte 0x80..0xBF after it)
RuneStart(s, i) ==
    ~(i > 1 /\ s[i] >= 128 /\ s[i] <= 191 /\ s[i - 1] >= 194 /\ s[i - 1] <= 223)

\* for i := range s { switch s[i] { case '\n', '\t', '\r', '\v', '\b', '\f', '\\', '/', '"': n++ } }
SlowPathLoop(s) ==
    Cardinality({i \in 1..Len(s) :
                    RuneStart(s, i) /\ s[i] \in {10, 9, 13, 11, 8, 12, 92, 47, 34}})

slowPath(s) == SlowPathLoop(s) + 2 + Len(s)

jsonLenString(s) ==
    IF Len(s) < ShortStringLimit /\ ~GotoSlowPath(s) THEN 2 + Len(s) ELSE slowPath(s)

\* jsonLenBytes with the expansion subtracted
jsonLenBytesMinus(b) == 2 - ((Len(b) * 4) \div 3)

jsonLenBytes(b) == 2 + ((Len(b) * 4) \div 3)

\* strconv.AppendFloat(b[:0], v, 'g', -1, 64) for the float64 values of the
\* model, each named by a numeral: the shortest decimal that reads back as v,
\* in scientific notation when the exponent is < -4 or >= 21
AppendFloat(f) ==
    CASE f = "0"     -> <<48>>
      [] f = "1.5"   -> <<49, 46, 53>>
      [] f = "-0.25" -> <<45, 48, 46, 50, 53>>
      [] f = "1e21"  -> <<49, 101, 43, 50, 49>>
      [] f = "1e-7"  -> <<49, 101, 45, 48, 55>>

jsonLenFloat(f) == Len(AppendFloat(f))

(***************************************************************************)
(* Go values                                                               *)
(***************************************************************************)

\* the nil error
NoErr == ""

Outcome(n, err, calls) == [n |-> n, err |-> err, calls |-> calls]

\* one invocation of a capability method: LengthJSON's result, or the number
\* of bytes MarshalJSON or MarshalText returned
Invoked(method, ret) == [method |-> method, ret |-> ret]

\* the method set of a value's dynamic type, and what each method returns for
\* this value: LengthJSON() int, MarshalJSON() ([]byte, error),
\* MarshalText() ([]byte, error)
NoCaps ==
    [lengther |-> FALSE, lengthJSON |-> 0,
     marshaler |-> FALSE, json |-> <<>>, jsonErr |-> NoErr,
     textMarshaler |-> FALSE, text |-> <<>>, textErr |-> NoErr]

NilValue      == [k |-> "nil"]
BoolValue(b)  == [k |-> "bool", b |-> b]
IntValue(i)   == [k |-> "int", i |-> i]
UintValue(i)  == [k |-> "uint", i |-> i]
FloatValue(f) == [k |-> "float", f |-> f]
StringValue(s) == [k |-> "string", s |-> s]
BytesValue(b) == [k |-> "bytes", s |-> b]
\* json.Number, a string type holding a numeric literal
NumberValue(s) == [k |-> "number", s |-> s]
\* []interface{} and map[string]interface{}
SliceInterface(elems) == [k |-> "sliceInterface", elems |-> elems]
MapStringInterface(m) == [k |-> "mapStringInterface", m |-> m]
\* an array or a slice of another type, a map of another type
ArrayValue(elems) == [k |-> "array", elems |-> elems]
MapValue(m)       == [k |-> "map", m |-> m]
\* a struct; fields[i] is [name, omitempty, canInterface, v]
StructValue(fields) == [k |-> "struct", fields |-> fields]
\* a func or a chan: a type without a JSON encoding
FuncValue == [k |-> "func"]
ChanValue == [k |-> "chan"]
\* a pointer: caps is the method set of the pointer type (methods declared on
\* the pointer receiver, which run on a nil receiver too)
NilPtr(caps)     == [k |-> "ptr", isNil |-> TRUE, caps |-> caps]
PtrTo(caps, e)   == [k |-> "ptr", isNil |-> FALSE, caps |-> caps, elem |-> e]
\* a value of a defined type with methods; under is the value as reflection
\* sees it
Named(caps, under) == [k |-> "named", caps |-> caps, under |-> under]

\* the methods a pointer type declares, joined with those promoted from the
\* type it points to (a non-nil pointer; a type declares a method once)
Promote(p, e) ==
    [lengther      |-> p.lengther \/ e.lengther,
     lengthJSON    |-> IF p.lengther THEN p.lengthJSON ELSE e.lengthJSON,
     marshaler     |-> p.marshaler \/ e.marshaler,
     json          |-> IF p.marshaler THEN p.json ELSE e.json,
     jsonErr       |-> IF p.marshaler THEN p.jsonErr ELSE e.jsonErr,
     textMarshaler |-> p.textMarshaler \/ e.textMarshaler,
     text          |-> IF p.textMarshaler THEN p.text ELSE e.text,
     textErr       |-> IF p.textMarshaler THEN p.textErr ELSE e.textErr]

\* the method set of the value's dynamic type
Caps(v) ==
    CASE v.k = "named" -> v.caps
      [] v.k = "ptr" -> IF ~v.isNil /\ v.elem.k = "named"
                        THEN Promote(v.caps, v.elem.caps) ELSE v.caps
      [] OTHER -> NoCaps

\* reflect.Kind of the value
RECURSIVE Kind(_)
Kind(v) == IF v.k = "named" THEN Kind(v.under) ELSE v.k

RECURSIVE Under(_)
Under(v) == IF v.k = "named" THEN Under(v.under) ELSE v

(***************************************************************************)
(* External collaborators of jsonLenStruct (not in src/length.go)          *)
(***************************************************************************)

\* LookupStruct(t): the field descriptors of the struct type, in declared order
LookupStruct(v) ==
    [i \in 1..Len(v.fields) |->
        [Index |-> i, Name |-> v.fields[i].name, Omitempty |-> v.fields[i].omitempty]]

\* v.FieldByIndex(f.Index)
FieldByIndex(v, index) == v.fields[index]

\* isEmptyValue(fv): the zero or empty value of the field's type
isEmptyValue(v) ==
    LET u == Under(v)
    IN  CASE u.k = "nil" -> TRUE
          [] u.k = "bool" -> ~u.b
          [] u.k \in {"int", "uint"} -> u.i = 0
          [] u.k = "float" -> u.f = "0"
          [] u.k \in {"string", "number", "bytes"} -> Len(u.s) = 0
          [] u.k \in {"sliceInterface", "array"} -> Len(u.elems) = 0
          [] u.k \in {"mapStringInterface", "map"} -> DOMAIN u.m = {}
          [] u.k = "ptr" -> u.isNil
          [] OTHER -> FALSE

(***************************************************************************)
(* Length and the composite engine                                         *)
(***************************************************************************)

\* the orders in which `range` may visit the keys of a map
KeyOrders(S) ==
    {p \in [1..Cardinality(S) -> S] : \A i, j \in 1..Cardinality(S) : i # j => p[i] # p[j]}

\* TypeSwitch with case json.Marshaler written before case Lengther
TypeSwitchMarshalerFirst(v) ==
    IF v.k \in {"bool", "int", "uint", "float", "string", "bytes",
                "mapStringInterface", "sliceInterface"} THEN v.k
    ELSE IF Caps(v).marshaler THEN "json.Marshaler"
    ELSE IF Caps(v).lengther THEN "Lengther"
    ELSE IF v.k = "number" THEN "json.Number"
    ELSE IF Caps(v).textMarshaler THEN "encoding.TextMarshaler"
    ELSE "default"

\* the case of Length's type switch the value takes: the first, in the order
\* written, that its dynamic type matches
TypeSwitch(v) ==
    IF v.k \in {"bool", "int", "uint", "float", "string", "bytes",
                "mapStringInterface", "sliceInterface"} THEN v.k
    ELSE IF Caps(v).lengther THEN "Lengther"
    ELSE IF v.k = "number" THEN "json.Number"
    ELSE IF Caps(v).marshaler THEN "json.Marshaler"
    ELSE IF Caps(v).textMarshaler THEN "encoding.TextMarshaler"
    ELSE "default"

RECURSIVE Length(_)
RECURSIVE jsonLenV(_)
RECURSIVE SliceInterfaceLoop(_, _, _, _)
RECURSIVE ArrayLoop(_, _, _, _)
RECURSIVE MapLoop(_, _, _, _, _)
RECURSIVE MapStringInterfaceLoop(_, _, _, _, _)
RECURSIVE StructLoop(_, _, _, _, _)
RECURSIVE ArrayLoopAlwaysSeparator(_, _, _, _)

\* SliceInterfaceLoop without the return on an element's error
SliceInterfaceLoopNoReturn(s, i, n, calls) ==
    IF i > Len(s) THEN {Outcome(n, NoErr, calls)}
    ELSE UNION {SliceInterfaceLoop(s, i + 1, n + o.n, calls \o o.calls) : o \in Length(s[i])}

\* for _, v := range s { if c, err = Length(v); err != nil { return }; n += c }
SliceInterfaceLoop(s, i, n, calls) ==
    IF i > Len(s) THEN {Outcome(n, NoErr, calls)}
    ELSE UNION {IF o.err # NoErr
                THEN {Outcome(n, o.err, calls \o o.calls)}
                ELSE SliceInterfaceLoop(s, i + 1, n + o.n, calls \o o.calls)
                : o \in Length(s[i])}

jsonLenSliceInterface(s) ==
    {IF o.err # NoErr THEN o
     ELSE Outcome(o.n + (IF Len(s) > 1 THEN Len(s) - 1 ELSE 0) + 2, NoErr, o.calls)
     : o \in SliceInterfaceLoop(s, 1, 0, <<>>)}

\* for i, j := 0, v.Len(); i != j; i++ { ... }; the model counts i from 1.
\* elem.CanInterface() holds: v comes from reflect.ValueOf in Length
ArrayLoop(elems, i, n, calls) ==
    IF i > Len(elems) THEN {Outcome(n + 2, NoErr, calls)}
    ELSE LET n1 == IF i # 1 THEN n + 1 ELSE n
         IN  UNION {IF o.err # NoErr
                    THEN {Outcome(n1, o.err, calls \o o.calls)}
                    ELSE ArrayLoop(elems, i + 1, n1 + o.n, calls \o o.calls)
                    : o \in Length(elems[i])}

\* ArrayLoop with n++ before every element, the first included
ArrayLoopAlwaysSeparator(elems, i, n, calls) ==
    IF i > Len(elems) THEN {Outcome(n + 2, NoErr, calls)}
    ELSE UNION {IF o.err # NoErr
                THEN {Outcome(n + 1, o.err, calls \o o.calls)}
                ELSE ArrayLoopAlwaysSeparator(elems, i + 1, n + 1 + o.n, calls \o o.calls)
                : o \in Length(elems[i])}

jsonLenArrayAlwaysSeparator(v) == ArrayLoopAlwaysSeparator(v.elems, 1, 0, <<>>)

jsonLenArray(v) == ArrayLoop(v.elems, 1, 0, <<>>)

\* for i, k := range v.MapKeys() { ... }, keys being v.MapKeys()
MapLoop(m, keys, i, n, calls) ==
    IF i > Len(keys) THEN {Outcome(n + 2, NoErr, calls)}
    ELSE LET n1 == IF i # 1 THEN n + 1 ELSE n
         IN  UNION {IF o1.err # NoErr
                    THEN {Outcome(n1, o1.err, calls \o o1.calls)}
                    ELSE UNION {IF o2.err # NoErr
                                THEN {Outcome(n1, o2.err, calls \o o1.calls \o o2.calls)}
                                ELSE MapLoop(m, keys, i + 1, n1 + o1.n + o2.n + 1,
                                             calls \o o1.calls \o o2.calls)
                                : o2 \in Length(m[keys[i]])}
                    : o1 \in Length(StringValue(keys[i]))}

jsonLenMap(v) == UNION {MapLoop(v.m, keys, 1, 0, <<>>) : keys \in KeyOrders(DOMAIN v.m)}

\* for k, v := range m { ... }, visiting the keys in the order keys
MapStringInterfaceLoop(m, keys, i, n, calls) ==
    IF i > Len(keys) THEN {Outcome(n, NoErr, calls)}
    ELSE UNION {IF o.err # NoErr
                THEN {Outcome(n, o.err, calls \o o.calls)}
                ELSE MapStringInterfaceLoop(m, keys, i + 1,
                                            n + jsonLenString(keys[i]) + o.n + 1,
                                            calls \o o.calls)
                : o \in Length(m[keys[i]])}

jsonLenMapStringInterface(m) ==
    LET c == Cardinality(DOMAIN m)
    IN  {IF o.err # NoErr THEN o
         ELSE Outcome(o.n + (IF c > 1 THEN c - 1 ELSE 0) + 2, NoErr, o.calls)
         : o \in UNION {MapStringInterfaceLoop(m, keys, 1, 0, <<>>)
                        : keys \in KeyOrders(DOMAIN m)}}

\* for _, f := range s { ... }
StructLoop(s, v, i, n, calls) ==
    IF i > Len(s) THEN {Outcome(n + 2, NoErr, calls)}
    ELSE LET f  == s[i]
             fv == FieldByIndex(v, f.Index)
         IN  IF f.Omitempty /\ isEmptyValue(fv.v)
             THEN StructLoop(s, v, i + 1, n, calls)
             ELSE IF ~fv.canInterface
             THEN {Outcome(n, "reflect: cannot call Interface", calls)}
             ELSE UNION {IF o.err # NoErr
                         THEN {Outcome(n, o.err, calls \o o.calls)}
                         ELSE StructLoop(s, v, i + 1,
                                         (IF n # 0 THEN n + 1 ELSE n)
                                             + jsonLenString(f.Name) + o.n + 1,
                                         calls \o o.calls)
                         : o \in Length(fv.v)}

jsonLenStruct(v) == StructLoop(LookupStruct(v), v, 1, 0, <<>>)

\* the reflection fallback.  v is reflect.ValueOf of a non-nil interface, so
\* v.IsValid() holds, and so does elem.CanInterface() for what it points to
jsonLenV(v) ==
    LET u == Under(v)
    IN  CASE u.k = "struct" -> jsonLenStruct(u)
          [] u.k \in {"map", "mapStringInterface"} -> jsonLenMap(u)
          [] u.k = "bytes" -> {Outcome(jsonLenBytes(u.s), NoErr, <<>>)}
          [] u.k \in {"array", "sliceInterface"} -> jsonLenArray(u)
          [] u.k = "ptr" ->
                IF u.isNil THEN {Outcome(jsonLenNull, NoErr, <<>>)} ELSE Length(u.elem)
          [] u.k = "bool" -> {Outcome(jsonLenBool(u.b), NoErr, <<>>)}
          [] u.k = "int" -> {Outcome(jsonLenInt(u.i), NoErr, <<>>)}
          [] u.k = "uint" -> {Outcome(jsonLenUint(u.i), NoErr, <<>>)}
          [] u.k = "float" -> {Outcome(jsonLenFloat(u.f), NoErr, <<>>)}
          [] u.k \in {"string", "number"} -> {Outcome(jsonLenString(u.s), NoErr, <<>>)}
          [] u.k = "func" -> {Outcome(0, "json: unsupported type: func()", <<>>)}
          [] u.k = "chan" -> {Outcome(0, "json: unsupported type: chan int", <<>>)}

Length(v) ==
    IF v.k = "nil" THEN {Outcome(jsonLenNull, NoErr, <<>>)}
    ELSE LET x == TypeSwitch(v)
             c == Caps(v)
         IN  CASE x = "bool" -> {Outcome(jsonLenBool(v.b), NoErr, <<>>)}
               [] x = "int" -> {Outcome(jsonLenInt(v.i), NoErr, <<>>)}
               [] x = "uint" -> {Outcome(jsonLenUint(v.i), NoErr, <<>>)}
               [] x = "float" -> {Outcome(jsonLenFloat(v.f), NoErr, <<>>)}
               [] x = "string" -> {Outcome(jsonLenString(v.s), NoErr, <<>>)}
               [] x = "bytes" -> {Outcome(jsonLenBytes(v.s), NoErr, <<>>)}
               [] x = "mapStringInterface" -> jsonLenMapStringInterface(v.m)
               [] x = "sliceInterface" -> jsonLenSliceInterface(v.elems)
               [] x = "Lengther" -> {Outcome(c.lengthJSON, NoErr, <<Invoked("LengthJSON", c.lengthJSON)>>)}
               [] x = "json.Number" -> {Outcome(Len(v.s), NoErr, <<>>)}
               [] x = "json.Marshaler" ->
                     {Outcome(IF c.jsonErr = NoErr THEN Len(c.json) ELSE 0,
                              c.jsonErr, <<Invoked("MarshalJSON", Len(c.json))>>)}
               [] x = "encoding.TextMarshaler" ->
                     {Outcome(IF c.textErr = NoErr THEN jsonLenString(c.text) ELSE 0,
                              c.textErr, <<Invoked("MarshalText", Len(c.text))>>)}
               [] x = "default" -> jsonLenV(v)

(***************************************************************************)
(* The values measured                                                     *)
(***************************************************************************)

\* bounds of the input space
MaxSeqLen == 3
MaxMapLen == 2
MaxFields == 3
MaxBytesLen == 5
MaxStrLen == 101

IntSamples == {-2147483647, -123, -10, -1, 0, 9, 10, 2147483647}

StrA     == <<97>>
StrSlash == <<47>>
StrAB    == <<97, 47, 98>>
StrAl    == <<65, 108>>
StrE     == <<195, 169>>
StrNL    == <<34, 10, 92>>

StringSamples == {<<>>, StrA, StrSlash, StrAB, StrAl, StrE, StrNL}

FloatSamples == {"0", "1.5", "-0.25", "1e21", "1e-7"}

\* the results LengthJSON reports
LengthJSONSamples == {-4, 0, 7}

\* method sets: each capability absent, present and succeeding, or (the two
\* encoding capabilities) present and failing
CapsSet ==
    {[lengther |-> l, lengthJSON |-> IF l THEN lj ELSE 0,
      marshaler |-> m[1], json |-> m[2], jsonErr |-> m[3],
      textMarshaler |-> x[1], text |-> x[2], textErr |-> x[3]] :
        l \in BOOLEAN, lj \in LengthJSONSamples,
        m \in {<<FALSE, <<>>, NoErr>>, <<TRUE, <<123, 125>>, NoErr>>,
               <<TRUE, <<>>, "MarshalJSON failed">>},
        x \in {<<FALSE, <<>>, NoErr>>, <<TRUE, StrAB, NoErr>>,
               <<TRUE, <<>>, "MarshalText failed">>}}

OnlyLengther(n) == [NoCaps EXCEPT !.lengther = TRUE, !.lengthJSON = n]
FailingMarshaler == [NoCaps EXCEPT !.marshaler = TRUE, !.jsonErr = "MarshalJSON failed"]

EmptyStruct == StructValue(<<>>)

Field(name, omitempty, v) ==
    [name |-> name, omitempty |-> omitempty, canInterface |-> TRUE, v |-> v]

Primitives ==
    {NilValue, FuncValue, ChanValue}
    \cup {BoolValue(b) : b \in BOOLEAN}
    \cup {IntValue(i) : i \in IntSamples}
    \cup {UintValue(i) : i \in {i \in IntSamples : i >= 0}}
    \cup {FloatValue(f) : f \in FloatSamples}
    \cup {StringValue(s) : s \in StringSamples}
    \cup {BytesValue(b) : b \in {<<>>, <<0>>, <<0, 255>>, <<0, 255, 7>>}}
    \cup {NumberValue(s) : s \in {<<49, 50>>, <<49, 46, 53, 101, 51>>}}

NamedValues ==
    {Named(c, u) : c \in CapsSet, u \in {EmptyStruct, IntValue(-10), FuncValue}}

\* nil and non-nil pointers: to a defined type with methods on the pointer
\* receiver, to a plain type, to a defined type with methods on the value
\* receiver, and to a type with methods on both
Pointers ==
    {NilPtr(c) : c \in CapsSet}
    \cup {PtrTo(c, Named(NoCaps, u)) : c \in CapsSet, u \in {IntValue(9), EmptyStruct}}
    \cup {PtrTo(NoCaps, e) : e \in {IntValue(9), StringValue(StrAB), NilValue}}
    \cup {PtrTo(NoCaps, Named(c, EmptyStruct)) : c \in CapsSet}
    \cup {PtrTo(FailingMarshaler, Named(OnlyLengther(7), EmptyStruct))}

\* what the containers of the dispatch specification hold
Members ==
    {IntValue(9), StringValue(StrAB), NilValue, FuncValue,
     Named(OnlyLengther(-4), EmptyStruct), Named(OnlyLengther(7), EmptyStruct),
     Named(FailingMarshaler, EmptyStruct), NilPtr(OnlyLengther(7))}

Containers ==
    {SliceInterface(<<>>), ArrayValue(<<>>), EmptyStruct}
    \cup {SliceInterface(<<a>>) : a \in Members}
    \cup {ArrayValue(<<a, b>>) : a, b \in Members}
    \cup {MapStringInterface([k \in {StrA} |-> a]) : a \in Members}
    \cup {MapValue([k \in {StrA} |-> a]) : a \in Members}
    \cup {StructValue(<<Field(StrA, o, a)>>) : o \in BOOLEAN, a \in Members}

Values == Primitives \cup NamedValues \cup Pointers \cup Containers

(***************************************************************************)
(* The callers                                                             *)
(***************************************************************************)

NoOutcome == Outcome(0, NoErr, <<>>)

\* n, err = Length(value)
Call ==
    /\ pc = "ready"
    /\ \E o \in Length(value) : out' = o
    /\ pc' = "called"
    /\ UNCHANGED <<value, out2>>

\* a second call on the same, unmodified value
CallAgain ==
    /\ pc = "called"
    /\ \E o \in Length(value) : out2' = o
    /\ pc' = "recalled"
    /\ UNCHANGED <<value, out>>

\* the same elements held in a container of the other type: []interface{}
\* takes Length's fast path, an array of interface{} the reflection fallback
OtherPath(v) == IF v.k = "sliceInterface" THEN ArrayValue(v.elems) ELSE SliceInterface(v.elems)

\* n, err = Length(other), other holding the elements of value
CallOtherPath ==
    /\ pc = "called"
    /\ value.k \in {"sliceInterface", "array"}
    /\ \E o \in Length(OtherPath(value)) : out2' = o
    /\ pc' = "compared"
    /\ UNCHANGED <<value, out>>

Ready == pc = "ready" /\ out = NoOutcome /\ out2 = NoOutcome

Init == value \in Values /\ Ready

Next == Call \/ CallAgain

Spec == Init /\ [][Next]_vars

(***************************************************************************)
(* Sequences: []interface{} and arrays of up to MaxSeqLen elements         *)
(***************************************************************************)

SeqMembers ==
    {IntValue(9), IntValue(-123), StringValue(StrAB), NilValue, FuncValue, ChanValue,
     Named(FailingMarshaler, EmptyStruct), Named(OnlyLengther(-4), EmptyStruct),
     SliceInterface(<<IntValue(9), StringValue(StrA)>>)}

SeqsOf(S, max) == UNION {[1..len -> S] : len \in 0..max}

SeqValues ==
    {SliceInterface(s) : s \in SeqsOf(SeqMembers, MaxSeqLen)}
    \cup {ArrayValue(s) : s \in SeqsOf(SeqMembers, MaxSeqLen)}

InitSeq == value \in SeqValues /\ Ready

NextSeq == Call \/ CallOtherPath

SpecSeq == InitSeq /\ [][NextSeq]_vars

(***************************************************************************)
(* Mappings of up to MaxMapLen entries                                     *)
(***************************************************************************)

MapKeys == {StrA, StrAB, StrAl}

MapMembers ==
    {IntValue(9), StringValue(StrAB), FuncValue, ChanValue,
     Named(FailingMarshaler, EmptyStruct),
     MapStringInterface([k \in {StrA} |-> IntValue(9)])}

MapsOf(K, S, max) ==
    UNION {[D -> S] : D \in {D \in SUBSET K : Cardinality(D) <= max}}

MapValues ==
    {MapStringInterface(m) : m \in MapsOf(MapKeys, MapMembers, MaxMapLen)}
    \cup {MapValue(m) : m \in MapsOf(MapKeys, MapMembers, MaxMapLen)}

InitMap == value \in MapValues /\ Ready

SpecMap == InitMap /\ [][Next]_vars

(***************************************************************************)
(* Records of up to MaxFields fields                                       *)
(***************************************************************************)

\* the names of a struct's fields, in declared order
FieldNames == <<StrA, StrAl, StrAB, StrE>>

FieldMembers ==
    {IntValue(0), IntValue(9), StringValue(<<>>), StringValue(StrAl),
     Named(OnlyLengther(-4), EmptyStruct), NilPtr(NoCaps), FuncValue}

FieldChoices ==
    {[omitempty |-> o, canInterface |-> TRUE, v |-> v] : o \in BOOLEAN, v \in FieldMembers}
    \cup {[omitempty |-> FALSE, canInterface |-> FALSE, v |-> IntValue(9)]}

StructValues ==
    {StructValue([i \in 1..Len(c) |->
                    [name |-> FieldNames[i], omitempty |-> c[i].omitempty,
                     canInterface |-> c[i].canInterface, v |-> c[i].v]])
        : c \in SeqsOf(FieldChoices, MaxFields)}

InitStruct == value \in StructValues /\ Ready

SpecStruct == InitStruct /\ [][Next]_vars

(***************************************************************************)
(* Byte slices of up to MaxBytesLen bytes                                  *)
(***************************************************************************)

ByteSeqs == SeqsOf({0, 255}, MaxBytesLen)

\* []byte, and a defined type whose underlying type is []byte
BytesValues ==
    {BytesValue(b) : b \in ByteSeqs} \cup {Named(NoCaps, BytesValue(b)) : b \in ByteSeqs}

InitBytes == value \in BytesValues /\ Ready

SpecBytes == InitBytes /\ [][Next]_vars

(***************************************************************************)
(* Strings of up to MaxStrLen bytes                                        *)
(***************************************************************************)

\* filler i times, then mid, then filler j times
Padded(i, mid, j) ==
    [x \in 1..(i + Len(mid) + j) |->
        IF x <= i \/ x > i + Len(mid) THEN 97 ELSE mid[x - i]]

EscapedByteSet == {escapedBytes[i] : i \in 1..Len(escapedBytes)}

\* strings of every length up to MaxStrLen: no escaped byte; a slash, a
\* backslash or a two-byte rune at any position; each escaped byte first,
\* last or next to last; an escaped byte at both ends; and the short samples
InitString ==
    /\ Ready
    /\ \/ \E mid \in {<<>>, <<47>>, <<92>>, StrE} :
            \E i \in 0..(MaxStrLen - Len(mid)) : \E j \in 0..(MaxStrLen - Len(mid) - i) :
                value = StringValue(Padded(i, mid, j))
       \/ \E e \in EscapedByteSet : \E j \in {0, 1} : \E i \in 0..(MaxStrLen - 1 - j) :
            value = StringValue(Padded(i, <<e>>, j))
       \/ \E e \in EscapedByteSet : \E j \in 0..(MaxStrLen - 1) :
            value = StringValue(Padded(0, <<e>>, j))
       \/ \E e1 \in {47, 10}, e2 \in {34, 92} : \E i \in 0..(MaxStrLen - 2) :
            value = StringValue(<<e1>> \o Padded(i, <<>>, 0) \o <<e2>>)
       \/ value \in {StringValue(s) : s \in StringSamples}

SpecString == InitString /\ [][Next]_vars

(***************************************************************************)
(* The reference encoder's rendering of a byte slice                       *)
(***************************************************************************)

\* the character of a 6-bit group in the standard base64 alphabet
Base64Char(x) ==
    IF x < 26 THEN 65 + x
    ELSE IF x < 52 THEN 97 + (x - 26)
    ELSE IF x < 62 THEN 48 + (x - 52)
    ELSE IF x = 62 THEN 43 ELSE 47

RECURSIVE Base64Encode(_)
\* base64.StdEncoding: three bytes become four characters, and a last group of
\* one or two bytes is padded with '=' to four
Base64Encode(b) ==
    CASE Len(b) = 0 -> <<>>
      [] Len(b) = 1 ->
            <<Base64Char(b[1] \div 4), Base64Char((b[1] % 4) * 16), 61, 61>>
      [] Len(b) = 2 ->
            <<Base64Char(b[1] \div 4),
              Base64Char((b[1] % 4) * 16 + b[2] \div 16),
              Base64Char((b[2] % 16) * 4), 61>>
      [] OTHER ->
            <<Base64Char(b[1] \div 4),
              Base64Char((b[1] % 4) * 16 + b[2] \div 16),
              Base64Char((b[2] % 16) * 4 + b[3] \div 64),
              Base64Char(b[3] % 64)>> \o Base64Encode(SubSeq(b, 4, Len(b)))

\* the encoder's output for a non-nil []byte: the base64 text in quotes
EncodeBytes(b) == <<34>> \o Base64Encode(b) \o <<34>>

(***************************************************************************)
(* Claims                                                                  *)
(***************************************************************************)

Called == pc # "ready"

\* the length and the error an element, field or entry yields by itself
Alone(e) == CHOOSE o \in Length(e) : TRUE

Computes(e) == \A o \in Length(e) : o.err = NoErr

RECURSIVE SumOfLengths(_)
SumOfLengths(s) ==
    IF s = <<>> THEN 0 ELSE Alone(Head(s)).n + SumOfLengths(Tail(s))

Separators(count) == IF count > 1 THEN count - 1 ELSE 0

----------------------------------------------------------------------------
\* C1: whenever Length returns an error, the length returned with it is 0: no
\* partial sum of the siblings measured before the failure.
C1_NoPartialLengthWithError == Called /\ out.err # NoErr => out.n = 0

----------------------------------------------------------------------------
\* C2: dispatch is first match wins in the order null, primitive shapes,
\* []interface{} / map[string]interface{}, Lengther, json.Number,
\* json.Marshaler, encoding.TextMarshaler, reflection: the outcome is that of
\* the earliest category the value satisfies, and a Lengther that is also a
\* Marshaler or TextMarshaler yields LengthJSON's value with no other method
\* invoked.
DispatchOrder ==
    <<"null", "primitive", "container", "Lengther", "json.Number",
      "json.Marshaler", "encoding.TextMarshaler", "reflection">>

Satisfies(v, category) ==
    CASE category = "null" -> v.k = "nil"
      [] category = "primitive" ->
            v.k \in {"bool", "int", "uint", "float", "string", "bytes"}
      [] category = "container" -> v.k \in {"sliceInterface", "mapStringInterface"}
      [] category = "Lengther" -> v.k # "nil" /\ Caps(v).lengther
      [] category = "json.Number" -> v.k = "number"
      [] category = "json.Marshaler" -> v.k # "nil" /\ Caps(v).marshaler
      [] category = "encoding.TextMarshaler" -> v.k # "nil" /\ Caps(v).textMarshaler
      [] category = "reflection" -> v.k # "nil"

Earliest(v) ==
    DispatchOrder[CHOOSE i \in 1..Len(DispatchOrder) :
                    /\ Satisfies(v, DispatchOrder[i])
                    /\ \A j \in 1..(i - 1) : ~Satisfies(v, DispatchOrder[j])]

\* what each category yields; the primitive formulas are those the reflection
\* switch applies by kind
CategoryOutcomes(v, category) ==
    CASE category = "null" -> {Outcome(4, NoErr, <<>>)}
      [] category \in {"primitive", "reflection"} -> jsonLenV(v)
      [] category = "container" ->
            IF v.k = "sliceInterface" THEN jsonLenSliceInterface(v.elems)
            ELSE jsonLenMapStringInterface(v.m)
      [] category = "Lengther" ->
            {Outcome(Caps(v).lengthJSON, NoErr,
                     <<Invoked("LengthJSON", Caps(v).lengthJSON)>>)}
      [] category = "json.Number" -> {Outcome(Len(v.s), NoErr, <<>>)}
      [] category = "json.Marshaler" ->
            {Outcome(IF Caps(v).jsonErr = NoErr THEN Len(Caps(v).json) ELSE 0,
                     Caps(v).jsonErr, <<Invoked("MarshalJSON", Len(Caps(v).json))>>)}
      [] category = "encoding.TextMarshaler" ->
            {Outcome(IF Caps(v).textErr = NoErr THEN jsonLenString(Caps(v).text) ELSE 0,
                     Caps(v).textErr, <<Invoked("MarshalText", Len(Caps(v).text))>>)}

C2_FirstMatchWins ==
    Called =>
        /\ out \in CategoryOutcomes(value, Earliest(value))
        /\ (value.k # "nil" /\ Caps(value).lengther
                /\ (Caps(value).marshaler \/ Caps(value).textMarshaler)
            => /\ out.n = Caps(value).lengthJSON
               /\ out.err = NoErr
               /\ \A i \in 1..Len(out.calls) : out.calls[i].method = "LengthJSON")

C2_Witness ==
    /\ pc = "called"
    /\ value.k = "named"
    /\ value.caps.lengther /\ value.caps.marshaler /\ value.caps.textMarshaler
    /\ value.caps.jsonErr # NoErr
    /\ out = Outcome(7, NoErr, <<Invoked("LengthJSON", 7)>>)

----------------------------------------------------------------------------
\* C3 as stated: whenever Length returns without error the length is not
\* negative, on every dispatch path, a Lengther's and a composite's holding
\* one included.
C3_NonNegative == Called /\ out.err = NoErr => out.n >= 0

\* C3 as amended: whenever Length returns without error and no LengthJSON it
\* invoked reported a negative length, the length is not negative.
C3_NonNegativeUnlessOverrideNegative ==
    (/\ Called
     /\ out.err = NoErr
     /\ \A i \in 1..Len(out.calls) :
            out.calls[i].method = "LengthJSON" => out.calls[i].ret >= 0)
    => out.n >= 0

C3_Witness ==
    /\ pc = "called"
    /\ value.k = "array"
    /\ Len(value.elems) = 2
    /\ out.err = NoErr
    /\ \E i \in 1..Len(out.calls) : out.calls[i] = Invoked("LengthJSON", 7)
    /\ out.n >= 0

----------------------------------------------------------------------------
\* C4: a record's length is 2 + the sum over its emitted fields of (quoted key
\* length + 1 + value length) + (emitted fields - 1 if more than one is
\* emitted), a field being emitted unless it is omitempty and empty, whatever
\* lengths the fields' values report.
EmittedFields(v) ==
    SelectSeq(v.fields, LAMBDA f : ~(f.omitempty /\ isEmptyValue(f.v)))

RECURSIVE SumOfFields(_)
SumOfFields(fs) ==
    IF fs = <<>> THEN 0
    ELSE (2 + Len(Head(fs).name)
            + Cardinality({i \in 1..Len(Head(fs).name) :
                            Head(fs).name[i] \in {34, 92, 47, 10, 9, 13, 11, 8, 12}})
            + 1 + Alone(Head(fs).v).n)
         + SumOfFields(Tail(fs))

C4_RecordLength ==
    Called /\ value.k = "struct" /\ out.err = NoErr
    => out.n = 2 + SumOfFields(EmittedFields(value))
                 + Separators(Len(EmittedFields(value)))

----------------------------------------------------------------------------
\* C5: a mapping's outcome (the length, or the error) is the same under every
\* traversal order, so two calls on the same unmodified mapping agree, on the
\* fast path and on the reflection path, also when more than one entry fails.
C5_SameOutcomeEveryOrder ==
    pc = "recalled" /\ value.k \in {"mapStringInterface", "map"}
    => /\ out.err = out2.err
       /\ (out.err = NoErr => out.n = out2.n)

----------------------------------------------------------------------------
\* C6: for a byte slice of N bytes the length is 2 + floor(N*4/3), and that is
\* the length of the encoder's quoted, padded base64 output, for every N.
C6_BytesLengthIsEncoders ==
    Called /\ Kind(value) = "bytes"
    => /\ out.n = 2 + ((Len(Under(value).s) * 4) \div 3)
       /\ out.n = Len(EncodeBytes(Under(value).s))

----------------------------------------------------------------------------
\* C7 as stated: a sequence with exactly one element of an unsupported type
\* fails with that element's own error, unchanged, whatever its position, on
\* the fast path and on the reflection path.
UnsupportedType(e) == TypeSwitch(e) = "default" /\ Kind(e) \in {"func", "chan"}

UnsupportedAt(s) == {i \in 1..Len(s) : UnsupportedType(s[i])}

TheUnsupported(s) == CHOOSE i \in UnsupportedAt(s) : TRUE

FailsWithElementsError(o, s) ==
    /\ o.err # NoErr
    /\ o.err = Alone(s[TheUnsupported(s)]).err

C7_FailsWithUnsupportedElementsError ==
    Called /\ Cardinality(UnsupportedAt(value.elems)) = 1
    => /\ FailsWithElementsError(out, value.elems)
       /\ (pc = "compared" => FailsWithElementsError(out2, value.elems))

\* C7 as amended: a sequence with exactly one element of an unsupported type,
\* and whose elements before it all compute, fails with that element's own
\* error, unchanged, whatever its position, on both paths.
C7_FailsWithUnsupportedElementsErrorIfFirstFailure ==
    (/\ Called
     /\ Cardinality(UnsupportedAt(value.elems)) = 1
     /\ \A j \in 1..(TheUnsupported(value.elems) - 1) : Computes(value.elems[j]))
    => /\ FailsWithElementsError(out, value.elems)
       /\ (pc = "compared" => FailsWithElementsError(out2, value.elems))

C7_Witness ==
    /\ pc = "compared"
    /\ Len(value.elems) = 3
    /\ UnsupportedAt(value.elems) = {3}
    /\ Computes(value.elems[1]) /\ Computes(value.elems[2])
    /\ out.err = "json: unsupported type: chan int"
    /\ out2.err = "json: unsupported type: chan int"

----------------------------------------------------------------------------
\* C8: for a sequence of N elements whose lengths all compute, the fast path
\* and the reflection path return the same length, 2 + the sum of the element
\* lengths + (N-1 if N>1, else 0), for every N.
C8_BothPathsSameLength ==
    Called /\ (\A i \in 1..Len(value.elems) : Computes(value.elems[i]))
    => /\ out.err = NoErr
       /\ out.n = 2 + SumOfLengths(value.elems) + Separators(Len(value.elems))
       /\ (pc = "compared" => out2.err = NoErr /\ out2.n = out.n)

C8_Witness ==
    /\ pc = "compared"
    /\ Len(value.elems) = 3
    /\ \A i \in 1..3 : Computes(value.elems[i])
    /\ value.elems[2] = IntValue(-123)
    /\ out.err = NoErr /\ out2.err = NoErr
    /\ out.n = out2.n

----------------------------------------------------------------------------
\* C9: for a pointer, nil yields 4 whatever capabilities the pointer's type
\* advertises, and non-nil yields exactly Length's result on the value it
\* points to.
C9_OptionalValue ==
    Called /\ value.k = "ptr"
    => IF value.isNil
       THEN out.n = 4 /\ out.err = NoErr
       ELSE \E o \in Length(value.elem) : o.n = out.n /\ o.err = out.err

----------------------------------------------------------------------------
\* C10: for every string the short-string fast path and the full scan agree:
\* the length is 2 + the byte count + the number of bytes among double quote,
\* backslash, slash, newline, tab, carriage return, vertical tab, backspace
\* and form feed, at every length (0, 1, 99 and 100 included) and wherever
\* those bytes occur.
EscapeCount(s) ==
    Cardinality({i \in 1..Len(s) : s[i] \in {34, 92, 47, 10, 9, 13, 11, 8, 12}})

C10_StringLength ==
    Called /\ value.k = "string"
    => /\ out = Outcome(2 + Len(value.s) + EscapeCount(value.s), NoErr, <<>>)
       /\ slowPath(value.s) = out.n

C10_Witness ==
    /\ pc = "called"
    /\ Len(value.s) = ShortStringLimit - 1
    /\ value.s[ShortStringLimit - 1] = 47
    /\ EscapeCount(value.s) = 1
    /\ out.n = ShortStringLimit + 2

====
